---- MODULE Spec2Model ----
(***************************************************************************)
(* Model of the alert sweep (check_alerts.py) and of the web entry points  *)
(* (app.py) of many-as-penny-web.                                          *)
(*                                                                         *)
(* A Python value that may be None is modelled as a set with at most one   *)
(* element: {} is None (or an absent dict key / request parameter), {v} is *)
(* the value v.                                                            *)
(***************************************************************************)
EXTENDS Integers, Sequences, FiniteSets, TLC

VARIABLES
    env,        \* the process environment read at import time (os.getenv)
    stocks,     \* table 'stocks': id -> row
    alerts,     \* table 'alerts': id -> row
    pc,         \* per pass: position of the pass in check_all_alerts
    entry,      \* per pass: {} for the cron job, {request} for run_alert_check
    listing,    \* per pass: response.data of the select at the top of the pass
    idx,        \* per pass: position of the for loop in listing
    cur,        \* per pass: the evaluation of the row the loop last worked on
    page,       \* the stocks list last rendered by home, {} while none
    adding,     \* per add_stock request: the row it is about to insert, {} otherwise
    ids,        \* the last id the store gave to a row, per table
    passNo,     \* number of passes and requests started so far
    passOf,     \* per pass: the number of the pass or request in the slot
    notified,   \* history: the rules send_email_alert was called for
    lastSkip,   \* history: the rules skipped for a quote error, in this pass or the previous
    trigAtList, \* history: per pass, the rules already triggered when it listed
    overlapped  \* history: a pass listed while another pass was running

\* the history kept of the program
hist == << notified, lastSkip, trigAtList, overlapped >>

vars == << env, stocks, alerts, pc, entry, listing, idx, cur, page, adding, ids,
           passNo, passOf,
           notified, lastSkip, trigAtList, overlapped >>

----------------------------------------------------------------------------
(* Bounds of the model *)

\* prices and target prices range over 0..MaxPrice
MaxPrice == 1
\* number of alert rules in the store
NumRules == 2
\* the same, where two passes overlap
NumRulesConc == 1
\* number of passes and requests started in one behaviour of Spec
MaxPasses == 1
\* the same, where passes follow or overlap each other
MaxPassesHist == 2
\* the last id the store gives to a row of stocks, of alerts
MaxStockId == 2
MaxAlertId == 1
\* the same for stocks, where two add_stock requests overlap
MaxStockIdConc == 4

Prices == 0..MaxPrice
Passes == {"p1", "p2"}
Users == {"u1", "u2"}
Kinds == {"high", "low", "other"}
Secrets == {{}, {"s3cret"}, {"wrong"}}
Requests == {"r1", "r2"}

\* Python truthiness of an optional string
Truthy(x) == x # {} /\ x # {""}

----------------------------------------------------------------------------
(* Quote source *)

\* what the upstream quote endpoint can answer: a transport failure
\* (RequestException), or a JSON object with 'c' (possibly absent) and 'h'
Upstream ==
    { [fail |-> TRUE, c |-> {}, h |-> {}] }
    \cup { [fail |-> FALSE, c |-> {}, h |-> {}] }
    \cup { [fail |-> FALSE, c |-> {c}, h |-> {h}] : c \in Prices, h \in {0, MaxPrice} }

\* the answers from which get_stock_quote makes a price
ValidUpstream == { up \in Upstream : ~up.fail /\ up.c # {} /\ ~(up.c = {0} /\ up.h = {0}) }

\* get_stock_quote without the test of line 33: a 0/0 answer is a price of 0
get_stock_quote_unchecked(symbol, up) ==
    IF up.fail
    THEN [symbol |-> symbol, error |-> "Failed to fetch quote", current_price |-> {}]
    ELSE [symbol |-> symbol, error |-> "", current_price |-> up.c]

\* check_alerts.get_stock_quote: the dict it returns; error = "" is an absent key
get_stock_quote(symbol, up) ==
    IF up.fail
    THEN [symbol |-> symbol, error |-> "Failed to fetch quote", current_price |-> {}]
    ELSE IF up.c = {0} /\ up.h = {0}
         THEN [symbol |-> symbol, error |-> "No valid price data found for ticker.",
               current_price |-> {}]
         ELSE [symbol |-> symbol, error |-> "", current_price |-> up.c]

\* app.get_stock_quote: the same classification (the further fields it returns
\* are only rendered)
app_get_stock_quote(symbol, up) ==
    IF up.fail
    THEN [symbol |-> symbol, error |-> "Failed to fetch quote", current_price |-> {}]
    ELSE IF up.c = {0} /\ up.h = {0}
         THEN [symbol |-> symbol, error |-> "No valid price data found for ticker.",
               current_price |-> {}]
         ELSE [symbol |-> symbol, error |-> "", current_price |-> up.c]

\* the test of line 100: the quote is skipped
QuoteSkipped(quote) == quote.error # "" \/ quote.current_price = {}

----------------------------------------------------------------------------
(* Notifier *)

\* what api_instance.send_transac_email can do
MailOutcomes == {"ok", "ApiException", "OtherException"}

\* send_email_alert: "skipped" (early return), "sent", "api_error" (ApiException
\* caught and logged) all return normally; any other exception of the mail
\* client leaves the function ("raised")
send_email_alert(target_email, mail) ==
    IF ~Truthy(env.BREVO_API_KEY) \/ ~Truthy(env.BREVO_SENDER) \/ ~Truthy(target_email)
    THEN "skipped"
    ELSE CASE mail = "ok" -> "sent"
           [] mail = "ApiException" -> "api_error"
           [] OTHER -> "raised"

----------------------------------------------------------------------------
(* Alert evaluator *)

\* lines 104-109: the local is_triggered after the if/elif
ShouldFire(alert, current_price) ==
    \/ alert.alert_type = "high" /\ current_price >= alert.target_price
    \/ alert.alert_type = "low" /\ current_price <= alert.target_price

\* the one element of a singleton
The(s) == CHOOSE x \in s : TRUE

\* line 82 without .eq('is_triggered', False): every row of the table
Untriggered_unfiltered == DOMAIN alerts

\* line 82: the rows select(...).eq('is_triggered', False) returns
Untriggered == { id \in DOMAIN alerts : alerts[id].is_triggered = FALSE }

\* the row of alert id with the joined stocks(symbol, name)
Joined(id) ==
    [ alert |-> alerts[id],
      stocks |-> IF alerts[id].stock_id \in DOMAIN stocks
                 THEN { [symbol |-> stocks[alerts[id].stock_id].symbol,
                         name |-> stocks[alerts[id].stock_id].name] }
                 ELSE {} ]

\* the orders in which the store may return a set of rows
Orders(S) == { s \in [1..Cardinality(S) -> S] : \A i, j \in DOMAIN s : s[i] = s[j] => i = j }

NoEval == {}

\* the pass in slot p is over: it returned, or an exception left it
Ended(p) == pc[p] \in {"done", "failed"}

\* no request or job is running in slot p
Free(p) == pc[p] \in {"idle", "done", "failed", "refused"}

\* the rules of the listing of p whose quote was fetched (line 99) so far
Evaluated(p) ==
    { listing[p][i].alert.id :
        i \in { j \in DOMAIN listing[p] : j < idx[p] \/ (j = idx[p] /\ pc[p] # "loop") } }

\* lines 82-89 of check_all_alerts, entered by pass p; storeOk: the select
\* returns (it raises otherwise), order: the order of its rows; at most
\* maxPasses passes and requests are started
Begin(p, request, storeOk, order, maxPasses) ==
    /\ passNo < maxPasses
    /\ Free(p)
    /\ passNo' = passNo + 1
    /\ passOf' = [passOf EXCEPT ![p] = passNo + 1]
    /\ entry' = [entry EXCEPT ![p] = request]
    /\ cur' = [cur EXCEPT ![p] = NoEval]
    /\ idx' = [idx EXCEPT ![p] = 1]
    /\ IF ~storeOk
       THEN \* the select raises: nothing catches it
            /\ pc' = [pc EXCEPT ![p] = "failed"]
            /\ listing' = [listing EXCEPT ![p] = << >>]
       ELSE /\ listing' = [listing EXCEPT ![p] = [i \in DOMAIN order |-> Joined(order[i])]]
            /\ pc' = [pc EXCEPT ![p] = IF DOMAIN order = {} THEN "done" ELSE "loop"]
    /\ UNCHANGED << adding, ids, env, stocks, alerts, page >>

\* check_alerts.py run as a script (the cron job)
check_alerts_main(p, Reads, maxPasses) ==
    \E storeOk \in Reads : \E order \in Orders(Untriggered) :
        Begin(p, {}, storeOk, order, maxPasses)

\* the loop works on the same row again
Advance_same_row(p) ==
    /\ pc' = [pc EXCEPT ![p] = IF idx[p] = Len(listing[p]) THEN "done" ELSE "loop"]
    /\ UNCHANGED idx

\* the pass moves to the next row, or ends after the last one
Advance(p) ==
    /\ pc' = [pc EXCEPT ![p] = IF idx[p] = Len(listing[p]) THEN "done" ELSE "loop"]
    /\ idx' = [idx EXCEPT ![p] = idx[p] + 1]

\* an unhandled exception leaves check_all_alerts
Abort(p) ==
    /\ pc' = [pc EXCEPT ![p] = "failed"]
    /\ UNCHANGED idx

\* lines 92-117: one iteration of the loop up to and including the call of
\* send_email_alert; Quotes and Mail are what the quote endpoint and the mail
\* client can answer
Evaluate(p, Quotes, Mail) ==
    /\ pc[p] = "loop"
    /\ LET row == listing[p][idx[p]]
           a == row.alert
       IN IF row.stocks = {}
          THEN \* line 94
               /\ cur' = [cur EXCEPT ![p] =
                     {[alert |-> a, upstream |-> {}, quote |-> {}, fired |-> FALSE,
                       notif |-> "none", wrote |-> "none"]}]
               /\ Advance(p)
          ELSE \E up \in Quotes :
               LET quote == get_stock_quote(The(row.stocks).symbol, up)
               IN IF QuoteSkipped(quote)
                  THEN \* line 101
                       /\ cur' = [cur EXCEPT ![p] =
                             {[alert |-> a, upstream |-> {up}, quote |-> {quote},
                               fired |-> FALSE, notif |-> "none", wrote |-> "none"]}]
                       /\ Advance(p)
                  ELSE IF ~ShouldFire(a, The(quote.current_price))
                  THEN \* line 111: is_triggered is False
                       /\ cur' = [cur EXCEPT ![p] =
                             {[alert |-> a, upstream |-> {up}, quote |-> {quote},
                               fired |-> FALSE, notif |-> "none", wrote |-> "none"]}]
                       /\ Advance(p)
                  ELSE \* lines 112-117
                       \E mail \in Mail :
                       LET out == send_email_alert(a.alert_email, mail)
                       IN /\ cur' = [cur EXCEPT ![p] =
                                {[alert |-> a, upstream |-> {up}, quote |-> {quote},
                                  fired |-> TRUE, notif |-> out, wrote |-> "none"]}]
                          /\ IF out = "raised" THEN Abort(p)
                             ELSE /\ pc' = [pc EXCEPT ![p] = "write"]
                                  /\ UNCHANGED idx
    /\ UNCHANGED << adding, ids, env, stocks, alerts, entry, listing, page, passNo, passOf >>

\* line 119 with a filter that matches no row: the table is as before
Marked_no_row(id) == alerts

\* line 119 without .eq('id', alert['id']): every row is updated
Marked_every_row(id) == [i \in DOMAIN alerts |-> [alerts[i] EXCEPT !.is_triggered = TRUE]]

\* line 119: the table after update({'is_triggered': True}).eq('id', id)
Marked(id) ==
    [i \in DOMAIN alerts |->
        IF i = id THEN [alerts[i] EXCEPT !.is_triggered = TRUE] ELSE alerts[i]]

\* line 119: update({'is_triggered': True}).eq('id', alert['id']).execute();
\* Writes: whether the update can return (TRUE), raise (FALSE), or both
Persist(p, Writes) ==
    /\ pc[p] = "write"
    /\ LET e == The(cur[p])
           id == e.alert.id
       IN \E storeOk \in Writes :
          IF storeOk
          THEN /\ alerts' = Marked(id)
               /\ cur' = [cur EXCEPT ![p] = {[e EXCEPT !.wrote = "ok"]}]
               /\ Advance(p)
          ELSE \* the update raises: nothing catches it
               /\ cur' = [cur EXCEPT ![p] = {[e EXCEPT !.wrote = "raised"]}]
               /\ Abort(p)
               /\ UNCHANGED alerts
    /\ UNCHANGED << adding, ids, env, stocks, entry, listing, page, passNo, passOf >>

----------------------------------------------------------------------------
(* Web entry points *)

\* GET /run-alert-check?secret=... : the sweep runs inside the request
run_alert_check(p, secret, Reads, maxPasses) ==
    IF secret = env.CRON_SECRET
    THEN \E storeOk \in Reads : \E order \in Orders(Untriggered) :
            Begin(p, {[secret |-> secret]}, storeOk, order, maxPasses)
    ELSE /\ passNo < maxPasses
         /\ Free(p)
         /\ passNo' = passNo + 1
         /\ passOf' = [passOf EXCEPT ![p] = passNo + 1]
    /\ passOf' = [passOf EXCEPT ![p] = passNo + 1]
         /\ entry' = [entry EXCEPT ![p] = {[secret |-> secret]}]
         /\ pc' = [pc EXCEPT ![p] = "refused"]
         /\ listing' = [listing EXCEPT ![p] = << >>]
         /\ idx' = [idx EXCEPT ![p] = 1]
         /\ cur' = [cur EXCEPT ![p] = NoEval]
         /\ UNCHANGED << adding, ids, env, stocks, alerts, page >>

\* the status of the response of the request in slot p: {} while the request
\* runs and for the cron job; an exception leaving the view is Flask's 500
Response(p) ==
    IF entry[p] = {} THEN {}
    ELSE CASE pc[p] = "done" -> {200}
           [] pc[p] = "refused" -> {403}
           [] pc[p] = "failed" -> {500}
           [] OTHER -> {}

\* the stocks select of home: the ids of the rows of user_id
StocksOf(user_id) == { sid \in DOMAIN stocks : stocks[sid].user_id = user_id }

\* GET / : the page rendered for the logged-in user; it reads both tables,
\* fetches one quote per stock and writes nothing
home(user_id, Quotes) ==
    /\ \E ups \in [StocksOf(user_id) -> Quotes] :
          page' = {[ user_id |-> user_id,
                     stocks |-> [ sid \in StocksOf(user_id) |->
                        [ upstream |-> ups[sid],
                          quote |-> app_get_stock_quote(stocks[sid].symbol, ups[sid]),
                          alerts |-> { id \in DOMAIN alerts :
                                         /\ alerts[id].user_id = user_id
                                         /\ alerts[id].stock_id = sid } ] ] ]}
    /\ UNCHANGED << adding, ids, env, stocks, alerts, pc, entry, listing, idx, cur, passNo, passOf >>

\* a form field that holds a number is a non-empty string: it is given
Given(x) == x # {}

\* what the symbol search of the quote service knows
Listings ==
    { [symbol |-> "AAPL", description |-> "APPLE INC"],
      [symbol |-> "MSFT", description |-> "MICROSOFT CORP"] }

\* app.search_for_stock: data['result'][0], or None ({}) when the request
\* fails or nothing matches
SearchResults == {{}} \cup { {l} : l \in Listings }

\* the add_stock requests between their select and their insert
Pending == { r \in Requests : adding[r] # {} }

\* the stocks select of add_stock: the rows of user_id with that symbol
Existing(user_id, symbol) ==
    { sid \in DOMAIN stocks :
        stocks[sid].symbol = symbol /\ stocks[sid].user_id = user_id }

\* a table with one more row
Inserted(table, id, row) ==
    [i \in DOMAIN table \cup {id} |-> IF i = id THEN row ELSE table[i]]

\* a table without the rows of the ids gone
Deleted(table, gone) == [i \in DOMAIN table \ gone |-> table[i]]

\* POST /add_stock up to the insert (lines 254-276): search, test quote and
\* the select of the rows the user already has with that symbol; in every
\* other case the request redirects without writing
add_stock(r, user_id, search_term, result, up, storeOk, maxStockId) ==
    /\ adding[r] = {}
    /\ ids.stocks + Cardinality(Pending) < maxStockId
    /\ Truthy(search_term)
    /\ result # {}
    /\ LET new_symbol == The(result).symbol
           company_name == The(result).description
           test_quote == app_get_stock_quote(new_symbol, up)
       IN /\ test_quote.error = ""
          /\ storeOk
          /\ Existing(user_id, new_symbol) = {}
          /\ adding' = [adding EXCEPT ![r] =
                          {[ symbol |-> new_symbol, name |-> company_name,
                             user_id |-> user_id, upstream |-> up ]}]
    /\ UNCHANGED << ids, env, stocks, alerts, pc, entry, listing, idx, cur, page,
                    passNo, passOf >>

\* POST /add_stock, the insert (lines 277-281); an exception of the store is
\* caught and flashed (lines 285-287)
add_stock_insert(r, storeOk) ==
    /\ adding[r] # {}
    /\ adding' = [adding EXCEPT ![r] = {}]
    /\ IF storeOk
       THEN LET id == ids.stocks + 1
                row == The(adding[r])
            IN /\ stocks' = Inserted(stocks, id,
                               [ id |-> id, symbol |-> row.symbol, name |-> row.name,
                                 user_id |-> row.user_id ])
               /\ ids' = [ids EXCEPT !.stocks = id]
       ELSE UNCHANGED << stocks, ids >>
    /\ UNCHANGED << env, alerts, pc, entry, listing, idx, cur, page, passNo, passOf >>

\* POST /delete_stock (lines 298-309): the row of that id and that user goes;
\* cascade: the store deletes the rules of the stock with it
delete_stock(user_id, stock_id, storeOk, cascade) ==
    /\ Given(stock_id)
    /\ storeOk
    /\ LET gone == { sid \in DOMAIN stocks :
                       sid = The(stock_id) /\ stocks[sid].user_id = user_id }
       IN /\ gone # {}
          /\ stocks' = Deleted(stocks, gone)
          /\ alerts' = IF cascade
                       THEN Deleted(alerts, { id \in DOMAIN alerts :
                                                alerts[id].stock_id \in gone })
                       ELSE alerts
    /\ UNCHANGED << adding, ids, env, pc, entry, listing, idx, cur, page, passNo, passOf >>

\* the row of lines 330-337 with the flag already set
AlertRow_triggered(id, user_id, stock_id, email, price, alert_type) ==
    [ id |-> id, stock_id |-> The(stock_id), user_id |-> user_id,
      alert_email |-> email, alert_type |-> The(alert_type),
      target_price |-> The(price), is_triggered |-> TRUE ]

\* the row add_alert inserts (lines 330-337), with the id the store gives it
AlertRow(id, user_id, stock_id, email, price, alert_type) ==
    [ id |-> id, stock_id |-> The(stock_id), user_id |-> user_id,
      alert_email |-> email, alert_type |-> The(alert_type),
      target_price |-> The(price), is_triggered |-> FALSE ]

\* add_alert without the test of lines 325-328
add_alert_unchecked(user_id, stock_id, email, price, alert_type, storeOk) ==
    /\ ids.alerts < MaxAlertId
    /\ Given(stock_id) /\ Truthy(email) /\ Given(price) /\ Truthy(alert_type)
    /\ storeOk
    /\ LET id == ids.alerts + 1
       IN /\ alerts' = Inserted(alerts, id,
                          AlertRow(id, user_id, stock_id, email, price, alert_type))
          /\ ids' = [ids EXCEPT !.alerts = id]
    /\ UNCHANGED << adding, env, stocks, pc, entry, listing, idx, cur, page, passNo, passOf >>

\* POST /add_alert (lines 315-341): the rule is inserted when every field is
\* given and the stock is a row of the requesting user
add_alert(user_id, stock_id, email, price, alert_type, storeOk) ==
    /\ ids.alerts < MaxAlertId
    /\ Given(stock_id) /\ Truthy(email) /\ Given(price) /\ Truthy(alert_type)
    /\ storeOk
    /\ \E sid \in DOMAIN stocks : sid = The(stock_id) /\ stocks[sid].user_id = user_id
    /\ LET id == ids.alerts + 1
       IN /\ alerts' = Inserted(alerts, id,
                          AlertRow(id, user_id, stock_id, email, price, alert_type))
          /\ ids' = [ids EXCEPT !.alerts = id]
    /\ UNCHANGED << adding, env, stocks, pc, entry, listing, idx, cur, page, passNo, passOf >>

\* POST /delete_alert (lines 347-358): the row of that id and that user goes
delete_alert(user_id, alert_id, storeOk) ==
    /\ Given(alert_id)
    /\ storeOk
    /\ LET gone == { id \in DOMAIN alerts :
                       id = The(alert_id) /\ alerts[id].user_id = user_id }
       IN /\ gone # {}
          /\ alerts' = Deleted(alerts, gone)
    /\ UNCHANGED << adding, ids, env, stocks, pc, entry, listing, idx, cur, page,
                    passNo, passOf >>

----------------------------------------------------------------------------
(* History of a step *)

\* the step is the call of send_email_alert for rule id by pass p (line 114)
Notifies(p, id) ==
    /\ pc[p] = "loop"
    /\ pc'[p] # "loop" \/ idx'[p] # idx[p]
    /\ \E e \in cur'[p] : e.alert.id = id /\ e.notif # "none"

\* the step is the skip of rule id by pass p for a quote error (line 101)
Skips(p, id) ==
    /\ pc[p] = "loop"
    /\ pc'[p] # "loop" \/ idx'[p] # idx[p]
    /\ \E e \in cur'[p] : e.alert.id = id /\ e.quote # {} /\ QuoteSkipped(The(e.quote))

\* the step is the select of a new pass in slot p (line 82)
Lists(p) == passOf'[p] # passOf[p] /\ pc'[p] # "refused"

\* the history variables follow the step of the program
ObserveNotified ==
    notified' = notified \cup { id \in DOMAIN alerts : \E p \in Passes : Notifies(p, id) }

ObserveSkips ==
    lastSkip' =
        IF \E p \in Passes : \E id \in DOMAIN alerts : Skips(p, id)
        THEN { s \in lastSkip : s.pass = "previous" }
             \cup { [rule |-> id, pass |-> "this"] :
                      id \in { i \in DOMAIN alerts : \E p \in Passes : Skips(p, i) } }
        ELSE IF \E p \in Passes : Lists(p)
             THEN { [rule |-> s.rule, pass |-> "previous"] :
                      s \in { t \in lastSkip : t.pass = "this" } }
             ELSE lastSkip

ObserveLists ==
    trigAtList' =
        [ p \in Passes |->
            IF Lists(p) THEN { id \in DOMAIN alerts : alerts[id].is_triggered }
            ELSE trigAtList[p] ]

\* a pass is between its select and its return
Running(p) == pc[p] \in {"loop", "write"}

ObserveOverlap ==
    overlapped' =
        (overlapped \/ \E p, q \in Passes : p # q /\ Lists(p) /\ Running(q))

----------------------------------------------------------------------------
(* Initial states and specifications *)

\* the environments considered: everything configured; the mail sender
\* missing; the mail key and the sweep secret missing
Envs ==
    { [BREVO_API_KEY |-> {"key"}, BREVO_SENDER |-> {"map@example.com"}, CRON_SECRET |-> {"s3cret"}],
      [BREVO_API_KEY |-> {"key"}, BREVO_SENDER |-> {}, CRON_SECRET |-> {"s3cret"}],
      [BREVO_API_KEY |-> {}, BREVO_SENDER |-> {"map@example.com"}, CRON_SECRET |-> {}] }

\* the watch-lists: one stock per user
InitStocks ==
    [ sid \in {1, 2} |->
        IF sid = 1 THEN [id |-> 1, symbol |-> "AAPL", name |-> "APPLE INC", user_id |-> "u1"]
                   ELSE [id |-> 2, symbol |-> "MSFT", name |-> "MICROSOFT CORP", user_id |-> "u2"] ]

\* the row add_alert inserts (lines 330-337) for a stock of the requesting user
NewAlert(id, sid, alert_type, target_price) ==
    [ id |-> id, stock_id |-> sid, user_id |-> InitStocks[sid].user_id,
      alert_email |-> {"owner@example.com"}, alert_type |-> alert_type,
      target_price |-> target_price, is_triggered |-> FALSE ]

\* a rank of the rows, to list each table once whatever the ids of its rows
Rank(r) ==
    (CASE r.k = "high" -> 0 [] r.k = "low" -> 1 [] OTHER -> 2) * (MaxPrice + 1) + r.t

\* the alerts tables of n rows, none triggered yet: the rules user u1 has put
\* on the stock of their watch-list
InitAlerts(n) ==
    { t \in [1..n -> [sid : {1}, k : Kinds, t : Prices]] :
        \A i, j \in 1..n : i < j => Rank(t[i]) <= Rank(t[j]) }

\* the state when the first pass or request starts
InitWith(E, n) ==
    /\ env \in E
    /\ stocks = InitStocks
    /\ \E t \in InitAlerts(n) :
          alerts = [id \in 1..n |-> NewAlert(id, t[id].sid, t[id].k, t[id].t)]
    /\ pc = [p \in Passes |-> "idle"]
    /\ entry = [p \in Passes |-> {}]
    /\ listing = [p \in Passes |-> << >>]
    /\ idx = [p \in Passes |-> 1]
    /\ cur = [p \in Passes |-> NoEval]
    /\ page = {}
    /\ adding = [r \in Requests |-> {}]
    /\ ids = [stocks |-> 2, alerts |-> n]
    /\ passNo = 0
    /\ passOf = [p \in Passes |-> 0]
    /\ notified = {}
    /\ lastSkip = {}
    /\ trigAtList = [p \in Passes |-> {}]
    /\ overlapped = FALSE

Init == InitWith(Envs, NumRules)

\* passes one after the other (a single job slot), every failure possible
Next ==
    \/ check_alerts_main("p1", BOOLEAN, MaxPasses) /\ UNCHANGED hist
    \/ (\E secret \in Secrets : run_alert_check("p1", secret, BOOLEAN, MaxPasses))
          /\ UNCHANGED hist
    \/ Evaluate("p1", Upstream, MailOutcomes) /\ UNCHANGED hist
    \/ Persist("p1", BOOLEAN) /\ UNCHANGED hist

Spec == Init /\ [][Next]_vars

\* the same over several passes whose select returns, with the history of the
\* quote errors
NextHist ==
    \/ check_alerts_main("p1", {TRUE}, MaxPassesHist)
          /\ ObserveSkips /\ UNCHANGED << notified, trigAtList, overlapped >>
    \/ (\E secret \in Secrets : run_alert_check("p1", secret, {TRUE}, MaxPassesHist))
          /\ ObserveSkips /\ UNCHANGED << notified, trigAtList, overlapped >>
    \/ Evaluate("p1", Upstream, MailOutcomes)
          /\ ObserveSkips /\ UNCHANGED << notified, trigAtList, overlapped >>
    \/ Persist("p1", BOOLEAN)
          /\ ObserveSkips /\ UNCHANGED << notified, trigAtList, overlapped >>

SpecHist == Init /\ [][NextHist]_vars

\* passes one after the other in which every quote is valid and the store
\* never fails, with the history of the notifications
NextOk ==
    \/ check_alerts_main("p1", {TRUE}, MaxPassesHist)
          /\ ObserveNotified /\ UNCHANGED << lastSkip, trigAtList, overlapped >>
    \/ (\E secret \in Secrets : run_alert_check("p1", secret, {TRUE}, MaxPassesHist))
          /\ ObserveNotified /\ UNCHANGED << lastSkip, trigAtList, overlapped >>
    \/ Evaluate("p1", ValidUpstream, MailOutcomes)
          /\ ObserveNotified /\ UNCHANGED << lastSkip, trigAtList, overlapped >>
    \/ Persist("p1", {TRUE})
          /\ ObserveNotified /\ UNCHANGED << lastSkip, trigAtList, overlapped >>

SpecOk == Init /\ [][NextOk]_vars

\* two passes that may overlap (two cron jobs, a cron job and a request, or
\* two requests), with the history of the listings; the quote endpoint answers
\* with the price of a traded symbol or fails, everything is configured
TradedUpstream == { up \in Upstream : up.fail \/ up.h = {MaxPrice} }

FullEnvs == { e \in Envs : \A k \in DOMAIN e : e[k] # {} }

\* each slot runs one pass, the one in slot p1 starts first
Starts(p) == pc[p] = "idle" /\ (p = "p2" => pc["p1"] # "idle")

NextConc ==
    \/ (\E p \in Passes : Starts(p) /\ check_alerts_main(p, BOOLEAN, Cardinality(Passes)))
          /\ ObserveLists /\ ObserveOverlap /\ UNCHANGED << notified, lastSkip >>
    \/ (\E p \in Passes : \E secret \in Secrets :
            Starts(p) /\ run_alert_check(p, secret, BOOLEAN, Cardinality(Passes)))
          /\ ObserveLists /\ ObserveOverlap /\ UNCHANGED << notified, lastSkip >>
    \/ (\E p \in Passes : Evaluate(p, TradedUpstream, MailOutcomes))
          /\ ObserveLists /\ ObserveOverlap /\ UNCHANGED << notified, lastSkip >>
    \/ (\E p \in Passes : Persist(p, BOOLEAN))
          /\ ObserveLists /\ ObserveOverlap /\ UNCHANGED << notified, lastSkip >>

SpecConc == InitWith(FullEnvs, NumRulesConc) /\ [][NextConc]_vars

\* the sweep and the interactive page load
NextWeb ==
    \/ check_alerts_main("p1", BOOLEAN, MaxPasses) /\ UNCHANGED hist
    \/ (\E secret \in Secrets : run_alert_check("p1", secret, BOOLEAN, MaxPasses))
          /\ UNCHANGED hist
    \/ Evaluate("p1", Upstream, MailOutcomes) /\ UNCHANGED hist
    \/ Persist("p1", BOOLEAN) /\ UNCHANGED hist
    \/ (\E user_id \in Users : home(user_id, Upstream)) /\ UNCHANGED hist

SpecWeb == Init /\ [][NextWeb]_vars

\* the process of a finished pass or request is over; the next run starts anew
Exit(p) ==
    /\ pc[p] \in {"done", "failed", "refused"}
    /\ pc' = [pc EXCEPT ![p] = "idle"]
    /\ entry' = [entry EXCEPT ![p] = {}]
    /\ listing' = [listing EXCEPT ![p] = << >>]
    /\ idx' = [idx EXCEPT ![p] = 1]
    /\ cur' = [cur EXCEPT ![p] = NoEval]
    /\ passNo' = 0
    /\ passOf' = [passOf EXCEPT ![p] = 0]
    /\ UNCHANGED << adding, ids, env, stocks, alerts, page >>

\* passes one after the other without end, every quote valid and the store
\* never failing; whatever can be done is eventually done
NextLive ==
    \/ check_alerts_main("p1", {TRUE}, MaxPasses) /\ UNCHANGED hist
    \/ (\E secret \in Secrets : run_alert_check("p1", secret, {TRUE}, MaxPasses))
          /\ UNCHANGED hist
    \/ Evaluate("p1", ValidUpstream, MailOutcomes) /\ UNCHANGED hist
    \/ Persist("p1", {TRUE}) /\ UNCHANGED hist
    \/ Exit("p1") /\ UNCHANGED hist

SpecLive == Init /\ [][NextLive]_vars /\ WF_vars(NextLive)

\* the values of a form field: missing, or one of vals
Field(vals) == {{}} \cup { {v} : v \in vals }

\* the answers of the quote endpoint to the test quote of add_stock: the
\* request fails, the symbol is unknown, the symbol is traded
TestUpstream ==
    { [fail |-> TRUE, c |-> {}, h |-> {}],
      [fail |-> FALSE, c |-> {0}, h |-> {0}],
      [fail |-> FALSE, c |-> {MaxPrice}, h |-> {MaxPrice}] }

\* the requests of the logged-in users, one at a time, with passes of the
\* sweep: the store answers every call of the sweep
NextCrud ==
    \/ check_alerts_main("p1", {TRUE}, MaxPasses) /\ UNCHANGED hist
    \/ Evaluate("p1", {[fail |-> FALSE, c |-> {MaxPrice}, h |-> {MaxPrice}]}, {"ok"})
          /\ UNCHANGED hist
    \/ Persist("p1", {TRUE}) /\ UNCHANGED hist
    \/ (\E user_id \in Users : home(user_id, {[fail |-> TRUE, c |-> {}, h |-> {}]}))
          /\ UNCHANGED hist
    \/ (\E user_id \in Users : \E result \in SearchResults :
          \E up \in TestUpstream : \E storeOk \in BOOLEAN :
             add_stock("r1", user_id, {"apple"}, result, up, storeOk, MaxStockId))
          /\ UNCHANGED hist
    \/ (\E storeOk \in BOOLEAN : add_stock_insert("r1", storeOk))
          /\ UNCHANGED hist
    \/ (\E user_id \in Users : \E stock_id \in Field(1..MaxStockId) :
          \E storeOk, cascade \in BOOLEAN :
             delete_stock(user_id, stock_id, storeOk, cascade))
          /\ UNCHANGED hist
    \/ (\E user_id \in Users : \E stock_id \in Field(1..MaxStockId) :
          \E email \in Field({"owner@example.com"}) : \E price \in Field({0}) :
          \E alert_type \in Field({"high"}) : \E storeOk \in BOOLEAN :
             add_alert(user_id, stock_id, email, price, alert_type, storeOk))
          /\ UNCHANGED hist
    \/ (\E user_id \in Users : \E alert_id \in Field(1..MaxAlertId) :
          \E storeOk \in BOOLEAN : delete_alert(user_id, alert_id, storeOk))
          /\ UNCHANGED hist

\* user u1 has one stock on their watch-list, and nobody has a rule yet
InitCrud ==
    /\ env \in FullEnvs
    /\ stocks = Deleted(InitStocks, {2})
    /\ alerts = << >>
    /\ pc = [p \in Passes |-> "idle"]
    /\ entry = [p \in Passes |-> {}]
    /\ listing = [p \in Passes |-> << >>]
    /\ idx = [p \in Passes |-> 1]
    /\ cur = [p \in Passes |-> NoEval]
    /\ page = {}
    /\ adding = [r \in Requests |-> {}]
    /\ ids = [stocks |-> 1, alerts |-> 0]
    /\ passNo = 0
    /\ passOf = [p \in Passes |-> 0]
    /\ notified = {}
    /\ lastSkip = {}
    /\ trigAtList = [p \in Passes |-> {}]
    /\ overlapped = FALSE

SpecCrud == InitCrud /\ [][NextCrud]_vars

\* add_stock and delete_stock requests that may overlap
NextStocks ==
    \/ (\E r \in Requests : \E user_id \in Users : \E result \in SearchResults :
          \E up \in TestUpstream : \E storeOk \in BOOLEAN :
             add_stock(r, user_id, {"apple"}, result, up, storeOk, MaxStockIdConc))
          /\ UNCHANGED hist
    \/ (\E r \in Requests : \E storeOk \in BOOLEAN : add_stock_insert(r, storeOk))
          /\ UNCHANGED hist
    \/ (\E user_id \in Users : \E stock_id \in Field(1..MaxStockIdConc) :
          \E storeOk, cascade \in BOOLEAN :
             delete_stock(user_id, stock_id, storeOk, cascade))
          /\ UNCHANGED hist

SpecStocks == InitWith(FullEnvs, NumRulesConc) /\ [][NextStocks]_vars

----------------------------------------------------------------------------
(* Claims *)

\* the evaluations that ran to their end in slot p
Finished(p) == IF pc[p] = "write" THEN {} ELSE cur[p]

\* the evaluation e had a valid price
Priced(e) == e.quote # {} /\ ~QuoteSkipped(The(e.quote))

\* the price evaluation e compared
PriceOf(e) == The(The(e.quote).current_price)

\* the answer of the quote endpoint for an unknown symbol
ZeroQuote(up) == ~up.fail /\ up.c = {0} /\ up.h = {0}

\* C1: in a pass, a rule listed as untriggered whose quote is a valid price p
\* has the Notifier invoked and is marked triggered if and only if
\* (kind = high and p >= target) or (kind = low and p <= target)
C1_FiresIffConditionMet ==
    \A p \in Passes : \A e \in Finished(p) :
        Priced(e) =>
            ( (e.notif # "none" /\ alerts[e.alert.id].is_triggered)
                <=> ShouldFire(e.alert, PriceOf(e)) )

\* C2: over passes that do not overlap, with every quote valid and every write
\* successful, the Notifier is invoked for a rule in the first pass whose price
\* meets its condition and in no later pass
C2_NotifiedExactlyOnce ==
    [][ \A p \in Passes : \A id \in DOMAIN alerts :
            Notifies(p, id) => id \notin notified ]_vars

\* C3 as stated: once the triggered flag of a rule is true, no step of any
\* pass invokes the Notifier for it
C3_NeverNotifiedOnceTriggered ==
    [][ \A p \in Passes : \A id \in DOMAIN alerts :
            alerts[id].is_triggered => ~Notifies(p, id) ]_vars

\* C3 as amended: a pass never invokes the Notifier for a rule whose triggered
\* flag was already true when the pass listed its rules
C3_NoNotifyAfterListedTriggered ==
    \A p \in Passes : \A e \in cur[p] :
        e.notif # "none" => e.alert.id \notin trigAtList[p]

\* C3, witness: a rule was notified and marked by one pass, and a pass that
\* listed after that ran to its end
C3_Witness ==
    \E p, q \in Passes : \E e \in cur[p] :
        /\ p # q
        /\ e.notif # "none"
        /\ e.alert.id \in trigAtList[q]
        /\ pc[q] = "done"

\* C4: a rule that fired has its persisted flag true when its evaluation is
\* over, whatever the notification did
C4_FiredRuleIsPersisted ==
    \A p \in Passes : \A e \in Finished(p) :
        e.fired => alerts[e.alert.id].is_triggered

\* C5: a rule whose quote is an error gets no Notifier call and no write in
\* that pass, keeps its flag, and is evaluated again by the next pass
C5_QuoteErrorSkipsAndRetries ==
    /\ \A p \in Passes : \A e \in Finished(p) :
          (e.quote # {} /\ QuoteSkipped(The(e.quote))) =>
              /\ e.notif = "none"
              /\ e.wrote = "none"
              /\ ~alerts[e.alert.id].is_triggered
    /\ \A p \in Passes : \A s \in lastSkip :
          (Ended(p) /\ s.pass = "previous") => s.rule \in Evaluated(p)

\* C6: a quote with current price 0 and day-high 0 is classified as an error,
\* never as a price of 0, and no rule fires on it
C6_ZeroQuoteIsError ==
    \A p \in Passes : \A e \in cur[p] : \A up \in e.upstream :
        ZeroQuote(up) =>
            /\ The(e.quote).error # ""
            /\ The(e.quote).current_price = {}
            /\ ~e.fired
            /\ e.notif = "none"
            /\ e.wrote = "none"

\* C6, witness: a low rule was evaluated on such a quote
C6_Witness ==
    \E p \in Passes : \E e \in Finished(p) : \E up \in e.upstream :
        /\ ZeroQuote(up)
        /\ e.alert.alert_type = "low"
        /\ e.alert.target_price >= 0

\* C7: a page load of owner u marks the rules of u that the sweep would mark
\* for the same rows and the same prices
C7_HomeActsAsSweep ==
    [][ \A pg \in page' :
          page' # page =>
            \A sid \in DOMAIN pg.stocks : \A id \in pg.stocks[sid].alerts :
                ( /\ ~alerts[id].is_triggered
                  /\ ~QuoteSkipped(pg.stocks[sid].quote)
                  /\ ShouldFire(alerts[id], The(pg.stocks[sid].quote.current_price)) )
                => alerts'[id].is_triggered ]_vars

\* C8: when a pass is over, every rule it listed has been evaluated, whatever
\* failed for another rule
C8_FailuresAreIsolated ==
    \A p \in Passes :
        Ended(p) => \A i \in DOMAIN listing[p] : listing[p][i].alert.id \in Evaluated(p)

\* C9: send_email_alert returns normally for every outcome of the mail client
C9_NotifierNeverRaises ==
    \A p \in Passes : \A e \in cur[p] : e.notif # "raised"

\* C10: the sweep endpoint answers 200 after a sweep if the secret parameter
\* equals the configured secret, and otherwise answers 403 and evaluates nothing
C10_SweepIffSecret ==
    \A p \in Passes : \A request \in entry[p] :
        Free(p) =>
            IF request.secret = env.CRON_SECRET
            THEN Response(p) = {200}
            ELSE Response(p) = {403} /\ listing[p] = << >> /\ cur[p] = NoEval

\* both passes hold an evaluation of rule id in which send_email_alert was called
DoubleNotified(id) ==
    \A p \in Passes : \E e \in cur[p] : e.alert.id = id /\ e.notif # "none"

\* the pass that started first
FirstPass == CHOOSE p \in Passes : \A q \in Passes : passOf[p] <= passOf[q]

\* both passes listed rule id as untriggered and sent the e-mail for it
DoubleSent(id) ==
    \A p \in Passes :
        /\ id \notin trigAtList[p]
        /\ \E e \in cur[p] : e.alert.id = id /\ e.notif = "sent"

\* C11 as stated, second half: with one pass at a time no rule is listed as
\* untriggered and notified by both passes
C11_NoDoubleNotifyWithoutOverlap ==
    ~overlapped => \A id \in DOMAIN alerts : ~DoubleSent(id)

\* C11 as amended: when both passes notified the same rule, either one listed
\* while the other was running, or the pass that ran first did not complete
\* the write of the flag
C11_DoubleNotifyNeedsOverlapOrLostWrite ==
    \A id \in DOMAIN alerts :
        DoubleNotified(id) =>
            \/ overlapped
            \/ \E e \in cur[FirstPass] : e.alert.id = id /\ e.wrote # "ok"

\* C11, witness: two overlapping passes listed the rule as untriggered, both
\* called send_email_alert for it and both wrote the flag
C11_Witness ==
    \E id \in DOMAIN alerts :
        /\ overlapped
        /\ DoubleNotified(id)
        /\ \A p \in Passes :
              /\ id \notin trigAtList[p]
              /\ \E e \in cur[p] : e.alert.id = id /\ e.notif = "sent" /\ e.wrote = "ok"

\* C13: when the update of the flag fails for a fired rule, the flag stays
\* false and the pass goes on with its other rules
C13_WriteFailureIsRecovered ==
    \A p \in Passes : \A e \in cur[p] :
        e.wrote = "raised" =>
            /\ ~alerts[e.alert.id].is_triggered
            /\ pc[p] # "failed"

\* C14: in one pass, no rule fires while a sibling rule of the same stock was
\* skipped for a quote error
C14_OneObservationPerStock ==
    \A p \in Passes : \A e \in Finished(p) : \A s \in lastSkip :
        ( /\ e.fired
          /\ s.pass = "this"
          /\ s.rule # e.alert.id
          /\ alerts[s.rule].stock_id = e.alert.stock_id )
        => FALSE

C17_EachListedRuleOnce ==
    [][ \A p \in Passes :
          /\ \A i, j \in DOMAIN listing'[p] :
                listing'[p][i].alert.id = listing'[p][j].alert.id => i = j
          /\ passOf'[p] = passOf[p] =>
                /\ listing'[p] = listing[p]
                /\ (pc[p] = "loop" /\ pc'[p] = "write") =>
                      idx'[p] = idx[p] /\ \E e \in cur'[p] : e.wrote = "none"
                /\ (Running(p) /\ pc'[p] \in {"loop", "done"}) =>
                      idx'[p] = idx[p] + 1
                /\ Running(p) =>
                      \A e \in cur'[p] : e.alert.id = listing[p][idx[p]].alert.id
                /\ Running(p) => idx[p] \in DOMAIN listing[p]
                /\ pc'[p] = "done" => idx'[p] = Len(listing[p]) + 1 ]_vars

\* C17, witness: a pass over two rules is over, the last one notified and marked
C17_Witness ==
    \E p \in Passes : \E e \in cur[p] :
        /\ pc[p] = "done"
        /\ Len(listing[p]) >= 2
        /\ e.notif = "sent"
        /\ e.wrote = "ok"

\* C19: a request without a secret parameter is refused: no sweep runs for it
C19_NoSecretNeverSweeps ==
    \A p \in Passes : \A request \in entry[p] :
        request.secret = {} =>
            /\ pc[p] = "refused"
            /\ listing[p] = << >>
            /\ cur[p] = NoEval

\* rule id is in an evaluation in which its condition held on a valid price
Fired(id) == \E p \in Passes : \E e \in cur[p] : e.alert.id = id /\ e.fired

\* C18: a rule that passes keep evaluating on a valid price that meets its
\* condition, with every store call succeeding, eventually has its flag true
C18_RetryEventuallyMarks ==
    \A id \in 1..NumRules :
        ([]<>Fired(id)) => <>(alerts[id].is_triggered)

\* C12: a rule is created with its flag false, and a step changes the flag of
\* a rule only from false to true, as the write of a pass of the sweep
C12_FlagIsMonotonic ==
    [][ \A id \in DOMAIN alerts' :
          IF id \in DOMAIN alerts
          THEN alerts'[id].is_triggered # alerts[id].is_triggered =>
                  /\ ~alerts[id].is_triggered
                  /\ alerts'[id].is_triggered
                  /\ \E p \in Passes : \E e \in cur[p] :
                        pc[p] = "write" /\ e.alert.id = id /\ e.wrote = "none"
          ELSE ~alerts'[id].is_triggered ]_vars

\* C12, witness: a rule made by add_alert was marked by a pass, and a page
\* was loaded
C12_Witness ==
    \E id \in DOMAIN alerts :
        /\ alerts[id].is_triggered
        /\ page # {}
        /\ \E p \in Passes : pc[p] = "done"

\* C16: a rule whose stock is in the store has the owner of that stock
C16_RuleOnOwnStock ==
    \A id \in DOMAIN alerts :
        alerts[id].stock_id \in DOMAIN stocks =>
            stocks[alerts[id].stock_id].user_id = alerts[id].user_id

\* C16, witness: both users have a stock, user u2 has a rule on theirs and a
\* pass fetched a quote for it
C16_Witness ==
    \E id \in DOMAIN alerts : \E p \in Passes : \E e \in cur[p] :
        /\ alerts[id].user_id = "u2"
        /\ alerts[id].stock_id \in DOMAIN stocks
        /\ StocksOf("u1") # {}
        /\ e.alert.id = id
        /\ e.quote # {}

\* C20: a watch-list has at most one stock per symbol, and a request that is
\* about to insert a stock got a quote without error for its symbol
C20_OneStockPerSymbol ==
    /\ \A s1, s2 \in DOMAIN stocks :
          ( /\ stocks[s1].user_id = stocks[s2].user_id
            /\ stocks[s1].symbol = stocks[s2].symbol ) => s1 = s2
    /\ \A r \in Requests : \A row \in adding[r] :
          app_get_stock_quote(row.symbol, row.upstream).error = ""

====
